---- MODULE Spec2Model ----
(***************************************************************************)
(* A model of the fixed-capacity priority container of vhrdcan             *)
(* (src/src/heap.rs): the generic Heap and its two facades PlainHeap and   *)
(* GroupingHeap, with the identifier order of src/src/id.rs and the frame  *)
(* order of src/src/frame.rs.                                              *)
(*                                                                         *)
(* usize values are kept as integers modulo 2^w, written by their signed   *)
(* residue: a negative number stands for a value just below 2^w, as a      *)
(* wrapped subtraction leaves it in a build without overflow checks.       *)
(* Array indices are 0-based as in the source; data is a TLA+ sequence,    *)
(* so slot i of the source is data[i + 1].                                 *)
(***************************************************************************)
EXTENDS Integers, Sequences, FiniteSets, TLC

\* ------------------------------------------------------------------ bounds

\* Capacity of the array (the const generic N of Heap).
N == 2

\* Successful insertions explored after the initial state.
MaxIns == 4

\* Longest iterator handed to push_group.
MaxGroup == 3

\* Longest run of calls made after a clear and made again on a new container.
MaxScript == 3

\* Longest run of calls made on a SortOn::Push container and made again on a
\* SortOn::Pop one.
MaxModeScript == 5

\* Largest payload capacity (the const generic MTU of Frame) explored in
\* full; byte slices run one past it.
MaxMtu == 2

\* Group tags explored after the initial state: one per insertion and one
\* more for a refused push.
MaxTags == MaxIns + 1

\* ------------------------------------------------------------ identifiers

\* FrameId::Standard(StandardId(v)) and FrameId::Extended(ExtendedId(v)).
StandardId(v) == [std |-> TRUE, v |-> v]

ExtendedId(v) == [std |-> FALSE, v |-> v]

\* Ordering of two unsigned integers (u16::cmp, u32::cmp).
IntCmp(a, b) == IF a < b THEN "Less" ELSE IF a = b THEN "Equal" ELSE "Greater"

\* FrameId::cmp deciding by the number alone, whatever the kind.
FrameIdCmpByNumber(l, r) == IntCmp(l.v, r.v)

\* impl Ord for FrameId: a standard identifier wins against any extended one.
FrameIdCmp(l, r) ==
    IF l.std
    THEN IF r.std THEN IntCmp(l.v, r.v) ELSE "Less"
    ELSE IF r.std THEN "Greater" ELSE IntCmp(l.v, r.v)

\* a & b on unsigned integers, bit by bit.
RECURSIVE BitAnd(_, _)
BitAnd(a, b) ==
    IF a = 0 \/ b = 0 THEN 0
    ELSE (a % 2) * (b % 2) + 2 * BitAnd(a \div 2, b \div 2)

\* No identifier was made: Option::None.
None == [kind |-> "None"]

\* Option::Some(x).
Some(x) == [kind |-> "Some", val |-> x]

\* The mask of StandardId::new: 0b0001_1111 << 11 on u16.
StandardMask == 31 * 2^11

\* StandardId::new with a mask one bit short: bit 15 is not looked at.
StandardIdNewShortMask(v) ==
    IF BitAnd(v, 15 * 2^11) # 0 THEN None ELSE Some(StandardId(v))

\* StandardId::new(standard_id: u16).
StandardIdNew(v) ==
    IF BitAnd(v, StandardMask) # 0 THEN None ELSE Some(StandardId(v))

\* A u32 written by its two 16-bit halves, hi * 2^16 + lo: the integers of
\* TLC end at 2^31 - 1, a u32 does not.
U32(hi, lo) == [hi |-> hi, lo |-> lo]

\* a & b on u32 values.
U32And(a, b) == U32(BitAnd(a.hi, b.hi), BitAnd(a.lo, b.lo))

\* The mask of ExtendedId::new: 0b111 << 29 on u32.
ExtendedMask == U32(7 * 2^13, 0)

\* ExtendedId::new(extended_id: u32). An accepted value is below 2^29 and is
\* kept as one integer.
ExtendedIdNew(w) ==
    IF U32And(w, ExtendedMask) # U32(0, 0) THEN None
    ELSE Some(ExtendedId(w.hi * 2^16 + w.lo))

\* FrameId::new_standard and FrameId::new_extended.
NewStandard(v) == StandardIdNew(v)

NewExtended(w) == ExtendedIdNew(w)

\* derive(PartialEq) for FrameId: same variant, same number.
FrameIdEq(l, r) == l.std = r.std /\ l.v = r.v

\* ----------------------------------------------------------------- frames

\* A Frame<MTU> of frame.rs: identifier and the used part of the payload.
Frame(id, bytes) == [id |-> id, data |-> bytes]

\* impl Ord for Frame<MTU>: the identifier alone decides.
FrameCmp(a, b) == FrameIdCmp(a.id, b.id)

\* frame < stored_frame (PartialOrd::lt through partial_cmp).
FrameLt(a, b) == FrameCmp(a, b) = "Less"

\* [0u8; MTU].
Zeros(mtu) == [i \in 1..mtu |-> 0]

\* The struct Frame { id, data, len } itself: the whole buffer and the used
\* length, as the constructors below fill it.
FrameStruct(id, buf, used) == [id |-> id, data |-> buf, len |-> used]

\* Frame::<MTU>::new_unchecked(id, data): the bytes copied into a zeroed
\* buffer, len the slice length cast to u16.
FrameNewUnchecked(mtu, id, bytes) ==
    LET n == Len(bytes)
    IN FrameStruct(id, [i \in 1..mtu |-> IF i <= n THEN bytes[i] ELSE 0],
                   n % 65536)

\* Frame::<MTU>::new(id, data).
FrameNew(mtu, id, bytes) ==
    IF Len(bytes) > mtu THEN None ELSE Some(FrameNewUnchecked(mtu, id, bytes))

\* Frame::<MTU>::new_move(id, data, used): data.len() is MTU, so the test
\* data.len() > MTU never holds.
FrameNewMove(mtu, id, buf, used) ==
    IF Len(buf) > mtu THEN None ELSE Some(FrameStruct(id, buf, used))

\* Frame::data(): &self.data[..self.len as usize], a panic when len exceeds
\* the buffer.
FrameData(f) ==
    IF f.len > Len(f.data) THEN [kind |-> "Panic"]
    ELSE [kind |-> "Slice", bytes |-> SubSeq(f.data, 1, f.len)]

\* derive(PartialEq) for Frame: every field takes part.
FrameEq(a, b) == FrameIdEq(a.id, b.id) /\ a.data = b.data /\ a.len = b.len

\* The frames the callers of the model insert.
Frames ==
    { Frame(StandardId(5), <<1>>),
      Frame(ExtendedId(2), <<2>>),
      Frame(ExtendedId(7), <<3>>) }

\* The markers the callers of the model attach.
Markers == {1, 2}

\* The group tags a caller of the generic Heap<M, G, ..> passes to push.
Groups == {1, 2}

\* ------------------------------------------------------- 16-bit counters

\* i16 two's complement wrap of an integer.
WrapI16(x) == ((x + 32768) % 65536) - 32768

\* u16 wrap of an integer.
WrapU16(x) == x % 65536

\* ------------------------------------------------------------------ slots

\* HeapElement::Hole.
Hole == [filled |-> FALSE]

\* HeapElement::Filled(frame, seq, marker, group); ord is the number of
\* successful insertions that preceded this one (not wrapped), kept beside the
\* entry to name it in the properties; the code never reads it.
Filled(frame, s, marker, group, ord) ==
    [filled |-> TRUE, frame |-> frame, seq |-> s, marker |-> marker,
     group |-> group, ord |-> ord]

\* impl Ord for HeapElement without the arm that compares sequence numbers:
\* entries with one identifier are Equal.
ElemCmpIdOnly(a, b) ==
    IF ~a.filled
    THEN IF ~b.filled THEN "Equal" ELSE "Greater"
    ELSE IF ~b.filled THEN "Less" ELSE FrameCmp(a.frame, b.frame)

\* impl Ord for HeapElement with a plain subtraction in place of
\* wrapping_sub: the sequence numbers are compared as integers.
ElemCmpNoWrap(a, b) ==
    IF ~a.filled
    THEN IF ~b.filled THEN "Equal" ELSE "Greater"
    ELSE IF ~b.filled
         THEN "Less"
         ELSE LET c == FrameCmp(a.frame, b.frame)
              IN IF c = "Equal" THEN IntCmp(a.seq - b.seq, 0) ELSE c

\* impl Ord for HeapElement.
ElemCmp(a, b) ==
    IF ~a.filled
    THEN IF ~b.filled THEN "Equal" ELSE "Greater"
    ELSE IF ~b.filled
         THEN "Less"
         ELSE LET c == FrameCmp(a.frame, b.frame)
              IN IF c = "Equal"
                 THEN IntCmp(WrapI16(a.seq - b.seq), 0)
                 ELSE c

\* a < b on slots, the is_less of sort_unstable.
ElemLt(a, b) == ElemCmp(a, b) = "Less"

\* Insert x into the sorted prefix s: x moves left while it is less than its
\* left neighbour.
RECURSIVE InsertTail(_, _)
InsertTail(s, x) ==
    IF s = <<>> THEN <<x>>
    ELSE IF ElemLt(x, s[Len(s)])
         THEN Append(InsertTail(SubSeq(s, 1, Len(s) - 1), x), s[Len(s)])
         ELSE Append(s, x)

RECURSIVE InsertionSort(_, _)
InsertionSort(s, k) ==
    IF k = 0 THEN <<>> ELSE InsertTail(InsertionSort(s, k - 1), s[k])

\* self.data.sort_unstable(): slices of at most 20 elements are sorted by
\* insertion sort in core::slice::sort.
SortUnstable(d) == InsertionSort(d, Len(d))

\* ------------------------------------------------------------------ state

VARIABLES
    facade,           \* "PlainHeap", "GroupingHeap" or "Heap" (the generic one)
    sort_on,          \* Heap.sort_on: "Push" or "Pop"
    overflow_checks,  \* the build panics on integer overflow (debug) or wraps
    data,             \* Heap.data
    len,              \* Heap.len
    hint_idx,         \* Heap.hint_idx
    seq,              \* Heap.seq
    group_seq,        \* GroupingHeap.group_seq
    fault,            \* "none", or the panic that ended the program
    last,             \* the last call: its name and return value
    nins,             \* successful insertions since new() (not wrapped)
    ins,              \* successful insertions since the initial state
    tags,             \* group tags allocated since the initial state
    grouped,          \* push_group has been called with a non-empty iterator
    rerun             \* the calls made since a clear, their results, and the
                      \* results of the same calls on a new container

vars ==
    <<facade, sort_on, overflow_checks, data, len, hint_idx, seq, group_seq,
      fault, last, nins, ins, tags, grouped, rerun>>

\* The group value PlainHeap passes: NoGrouping {}.
NoGrouping == -1

\* old_group == *group on G: NoGrouping::eq is always false, u16 (and the
\* caller's G) compare by value.
GroupEq(a, b) == a # NoGrouping /\ b # NoGrouping /\ a = b

\* a < b on usize values written by their signed residue.
ULt(a, b) ==
    \/ a >= 0 /\ b >= 0 /\ a < b
    \/ a >= 0 /\ b < 0
    \/ a < 0 /\ b < 0 /\ a < b

\* The slots of d that are Filled (1-based positions).
FilledAt(d) == {i \in 1..Len(d) : d[i].filled}

\* The smallest element of a non-empty set of integers.
MinOf(S) == CHOOSE x \in S : \A y \in S : x <= y

\* What a call leaves behind: the fields of the heap, the return value, and
\* the panic if the call did not return.
Outcome(d, l, h, s, ret, f) ==
    [data |-> d, len |-> l, hint_idx |-> h, seq |-> s, ret |-> ret, fault |-> f]

\* Heap::new.
EmptyData == [i \in 1..N |-> Hole]

\* ------------------------------------------------------------ Heap::push

\* The tail of push without the sort of SortOn::Push mode and its reset of
\* hint_idx.
PushDoneKeepsCursor(d, l, h, replaced) ==
    Outcome(d, l, h, WrapI16(seq + 1), [kind |-> "Ok", n |-> replaced], "none")

\* The tail of push: sort in SortOn::Push mode, advance seq, Ok(replaced).
PushDone(d, l, h, replaced) ==
    Outcome(IF sort_on = "Push" THEN SortUnstable(d) ELSE d,
            l,
            IF sort_on = "Push" THEN 0 ELSE h,
            WrapI16(seq + 1),
            [kind |-> "Ok", n |-> replaced],
            "none")

\* The slots cleared by the sweep after the tail was replaced: those whose
\* group equals the evicted occupant's.
SweepVictims(d, old_group) ==
    {i \in 1..N : d[i].filled /\ GroupEq(old_group, d[i].group)}

\* push on self.len == N without the sort that brings the lowest-priority
\* occupant to the last slot.
PushFullUnsorted(frame, marker, group) ==
    LET tail == data[N]
    IN IF ~tail.filled
       THEN Outcome(data, len, hint_idx, seq, [kind |-> "Panic"], "unreachable")
       ELSE IF FrameLt(frame, tail.frame)
            THEN LET put == [data EXCEPT
                               ![N] = Filled(frame, seq, marker, group, nins)]
                     victims == SweepVictims(put, tail.group)
                     swept == [i \in 1..N |->
                                 IF i \in victims THEN Hole ELSE put[i]]
                 IN PushDone(swept, len, hint_idx, 1 + Cardinality(victims))
            ELSE Outcome(data, len, hint_idx, seq,
                         [kind |-> "Err", frame |-> frame], "none")

\* push on self.len == N.
PushFull(frame, marker, group) ==
    LET sorted == SortUnstable(data)
        tail == sorted[N]
    IN IF ~tail.filled
       THEN Outcome(sorted, len, 0, seq, [kind |-> "Panic"], "unreachable")
       ELSE IF FrameLt(frame, tail.frame)
            THEN LET put == [sorted EXCEPT
                               ![N] = Filled(frame, seq, marker, group, nins)]
                     victims == SweepVictims(put, tail.group)
                     swept == [i \in 1..N |->
                                 IF i \in victims THEN Hole ELSE put[i]]
                 IN PushDone(swept, len, 0, 1 + Cardinality(victims))
            ELSE Outcome(sorted, len, 0, seq,
                         [kind |-> "Err", frame |-> frame], "none")

\* push on self.len != N: the first Hole, if any, takes the entry.
PushFree(frame, marker, group) ==
    LET holes == {i \in 1..N : data[i] = Hole}
        d1 == IF holes = {} THEN data
              ELSE [data EXCEPT
                      ![MinOf(holes)] = Filled(frame, seq, marker, group, nins)]
    IN PushDone(d1, len + 1, hint_idx, 0)

\* Heap::push(frame, marker, group).
HeapPush(frame, marker, group) ==
    IF len = N THEN PushFull(frame, marker, group)
    ELSE PushFree(frame, marker, group)

\* ------------------------------------------------------------- Heap::pop

\* The value pop returns for the slot e; ord names the entry in properties.
Popped(e) ==
    [kind |-> "Some", frame |-> e.frame, marker |-> e.marker, ord |-> e.ord]

\* Heap::pop without the sort of SortOn::Pop: the cursor alone picks the slot.
HeapPopUnsorted ==
    IF len = 0
    THEN Outcome(data, len, hint_idx, seq, [kind |-> "None"], "none")
    ELSE LET h2 == IF hint_idx >= N THEN 0 ELSE hint_idx
         IN IF data[h2 + 1].filled
            THEN Outcome([data EXCEPT ![h2 + 1] = Hole], len - 1, h2 + 1, seq,
                         Popped(data[h2 + 1]), "none")
            ELSE IF FilledAt(data) = {}
                 THEN Outcome(data, len, h2 + N, seq, [kind |-> "None"], "none")
                 ELSE LET j == MinOf(FilledAt(data))
                      IN Outcome([data EXCEPT ![j] = Hole], len - 1, h2 + j,
                                 seq, Popped(data[j]), "none")

\* Heap::pop.
HeapPop ==
    IF len = 0
    THEN Outcome(data, len, hint_idx, seq, [kind |-> "None"], "none")
    ELSE LET d1 == IF sort_on = "Pop" THEN SortUnstable(data) ELSE data
             h1 == IF sort_on = "Pop" THEN 0 ELSE hint_idx
             h2 == IF h1 >= N THEN 0 ELSE h1
         IN IF d1[h2 + 1].filled
            THEN Outcome([d1 EXCEPT ![h2 + 1] = Hole], len - 1, h2 + 1, seq,
                         Popped(d1[h2 + 1]), "none")
            ELSE IF FilledAt(d1) = {}
                 THEN Outcome(d1, len, h2 + N, seq, [kind |-> "None"], "none")
                 ELSE LET j == MinOf(FilledAt(d1))
                      IN Outcome([d1 EXCEPT ![j] = Hole], len - 1, h2 + j, seq,
                                 Popped(d1[j]), "none")

\* ----------------------------------------------------------- Heap::clear

\* Heap::clear without `self.len = 0`.
HeapClearKeepsLen ==
    Outcome(EmptyData, len, hint_idx, seq, [kind |-> "Unit"], "none")

\* Heap::clear: every slot a Hole, len 0; hint_idx and seq keep their values.
HeapClear == Outcome(EmptyData, 0, hint_idx, seq, [kind |-> "Unit"], "none")

\* ------------------------------------------------ GroupingHeap::push_group

\* What push_group leaves behind: an Outcome, the group counter and the
\* number of sequence numbers it handed out.
GroupOutcome(d, l, h, s, gs, given, ret, f) ==
    [data |-> d, len |-> l, hint_idx |-> h, seq |-> s, group_seq |-> gs,
     given |-> given, ret |-> ret, fault |-> f]

\* d with the slots lo..hi (0-based, inclusive) cleared to Hole.
HoleRange(d, lo, hi) ==
    [j \in 1..N |-> IF lo + 1 <= j /\ j <= hi + 1 THEN Hole ELSE d[j]]

\* The eviction loop of push_group, entered with the 0-based index i: clear
\* slot i, count it, step left; stop at index 0 or at an occupant of another
\* group; while the left neighbour is of the same group, clear everything
\* from it to the end of the array, decrementing len for each slot.
\* Returns [data, len, removed, fault].
RECURSIVE EvictLoop(_, _, _, _, _)
EvictLoop(d, l, removed, i, group) ==
    LET d1 == [d EXCEPT ![i + 1] = Hole]
    IN IF overflow_checks /\ l = 0
       THEN [data |-> d1, len |-> l, removed |-> removed + 1,
             fault |-> "overflow"]
       ELSE IF i = 0
       THEN [data |-> d1, len |-> l - 1, removed |-> removed + 1,
             fault |-> "none"]
       ELSE IF ~d1[i].filled
       THEN [data |-> d1, len |-> l - 1, removed |-> removed + 1,
             fault |-> "unreachable"]
       ELSE IF d1[i].group # group
       THEN [data |-> d1, len |-> l - 1, removed |-> removed + 1,
             fault |-> "none"]
       ELSE LET l1 == l - 1
                c == N - (i - 1)
            IN IF overflow_checks /\ l1 < c
               THEN [data |-> HoleRange(d1, i - 1, i - 1 + l1), len |-> 0,
                     removed |-> removed + 1, fault |-> "overflow"]
               ELSE EvictLoop(HoleRange(d1, i - 1, N - 1), l1 - c,
                              removed + 1, i - 1, group)

\* The loop `for frame in frames` of push_group from the t-th pair on, with
\* the 0-based index i: write the pair at i, advance seq and len, decrement i.
RECURSIVE InsertRest(_, _, _, _, _, _, _)
InsertRest(d, l, s, i, t, frames, gs) ==
    IF t > Len(frames)
    THEN [data |-> d, len |-> l, seq |-> s, given |-> t - 1, fault |-> "none"]
    ELSE IF i < 0 \/ i >= N
    THEN [data |-> d, len |-> l, seq |-> s, given |-> t - 1, fault |-> "index"]
    ELSE LET d1 == [d EXCEPT ![i + 1] =
                      Filled(frames[t].frame, s, frames[t].marker, gs,
                             nins + t - 1)]
         IN IF overflow_checks /\ i = 0
            THEN [data |-> d1, len |-> l + 1, seq |-> WrapI16(s + 1),
                  given |-> t, fault |-> "overflow"]
            ELSE InsertRest(d1, l + 1, WrapI16(s + 1), i - 1, t + 1, frames, gs)

\* Lines 289-305 of push_group: a new group tag, the first pair at N - 1, the
\* others by InsertRest starting again at N - 1, the sort of SortOn::Push.
GroupInsert(d, l, h, removed, frames) ==
    LET gs == WrapU16(group_seq + 1)
        d0 == [d EXCEPT ![N] =
                 Filled(frames[1].frame, seq, frames[1].marker, gs, nins)]
        r == InsertRest(d0, l + 1, WrapI16(seq + 1), N - 1, 2, frames, gs)
    IN IF r.fault # "none"
       THEN GroupOutcome(r.data, r.len, h, r.seq, gs, r.given,
                         [kind |-> "Panic"], r.fault)
       ELSE GroupOutcome(
                IF sort_on = "Push" THEN SortUnstable(r.data) ELSE r.data,
                r.len,
                IF sort_on = "Push" THEN 0 ELSE h,
                r.seq, gs, r.given, [kind |-> "Ok", n |-> removed], "none")

\* The eviction branch with the group tag allocated before the comparison
\* with the occupant: a refused group still consumes a tag.
GroupEvictTagFirst(frames, m) ==
    LET sorted == SortUnstable(data)
        start == N - m
        gs == WrapU16(group_seq + 1)
    IN IF m > N
       THEN GroupOutcome(sorted, len, 0, seq, group_seq, 0, [kind |-> "Panic"],
                         IF overflow_checks THEN "overflow" ELSE "index")
       ELSE IF ~sorted[start + 1].filled
       THEN GroupOutcome(sorted, len, 0, seq, group_seq, 0, [kind |-> "Panic"],
                         "unreachable")
       ELSE IF FrameLt(frames[1].frame, sorted[start + 1].frame)
       THEN LET e == EvictLoop(sorted, len, 0, start, sorted[start + 1].group)
            IN IF e.fault # "none"
               THEN GroupOutcome(e.data, e.len, 0, seq, group_seq, 0,
                                 [kind |-> "Panic"], e.fault)
               ELSE GroupInsert(e.data, e.len, 0, e.removed, frames)
       ELSE GroupOutcome(sorted, len, 0, seq, gs, 0, [kind |-> "Err"], "none")

\* Lines 243-288 of push_group, entered when the free slots are fewer than
\* the pairs left in the iterator after the first was taken (m of them).
GroupEvict(frames, m) ==
    LET sorted == SortUnstable(data)
        start == N - m
    IN IF m > N
       THEN GroupOutcome(sorted, len, 0, seq, group_seq, 0, [kind |-> "Panic"],
                         IF overflow_checks THEN "overflow" ELSE "index")
       ELSE IF ~sorted[start + 1].filled
       THEN GroupOutcome(sorted, len, 0, seq, group_seq, 0, [kind |-> "Panic"],
                         "unreachable")
       ELSE IF FrameLt(frames[1].frame, sorted[start + 1].frame)
       THEN LET e == EvictLoop(sorted, len, 0, start, sorted[start + 1].group)
            IN IF e.fault # "none"
               THEN GroupOutcome(e.data, e.len, 0, seq, group_seq, 0,
                                 [kind |-> "Panic"], e.fault)
               ELSE GroupInsert(e.data, e.len, 0, e.removed, frames)
       ELSE GroupOutcome(sorted, len, 0, seq, group_seq, 0, [kind |-> "Err"],
                         "none")

\* GroupingHeap::push_group(frames), frames a sequence of (frame, marker).
PushGroup(frames) ==
    IF Len(frames) = 0
    THEN GroupOutcome(data, len, hint_idx, seq, group_seq, 0,
                      [kind |-> "Ok", n |-> 0], "none")
    ELSE LET m == Len(frames) - 1
         IN IF overflow_checks /\ ULt(N, len)
            THEN GroupOutcome(data, len, hint_idx, seq, group_seq, 0,
                              [kind |-> "Panic"], "overflow")
            ELSE IF ULt(N - len, m)
                 THEN GroupEvict(frames, m)
                 ELSE GroupInsert(data, len, hint_idx, 0, frames)

\* ---------------------------------------------------------- initial states

\* No calls are being recorded.
RerunOff == [phase |-> "off"]

\* <facade>::new(sort_on): every slot a Hole, all counters 0.
InitNew ==
    /\ data = EmptyData
    /\ len = 0
    /\ hint_idx = 0
    /\ seq = 0
    /\ group_seq = 0
    /\ nins = 0
    /\ last = [op |-> "new", ret |-> [kind |-> "Unit"]]

\* Successful insertions behind the aged initial state: 2^15 - 1.
AgedIns == 2^15 - 1

\* The entry an aged container still holds, and the one it kept replacing.
AgedFrame == Frame(ExtendedId(7), <<3>>)

ChurnFrame == Frame(StandardId(5), <<1>>)

\* The state of a container long in use: new(sort_on), push(AgedFrame, 1),
\* then AgedIns - 1 times push(ChurnFrame, 1) followed by pop(). Every one of
\* those pops returns the ChurnFrame just pushed and leaves AgedFrame, with
\* seq 0, in slot 1, the cursor behind the popped slot 0.
InitAged ==
    /\ data = [i \in 1..N |->
                 IF i = 2
                 THEN Filled(AgedFrame, 0, 1,
                             IF facade = "PlainHeap" THEN NoGrouping ELSE 1, 0)
                 ELSE Hole]
    /\ len = 1
    /\ hint_idx = 1
    /\ seq = WrapI16(AgedIns)
    /\ group_seq = IF facade = "GroupingHeap" THEN WrapU16(AgedIns) ELSE 0
    /\ nins = AgedIns
    /\ last = [op |-> "pop",
               ret |-> [kind |-> "Some", frame |-> ChurnFrame, marker |-> 1,
                        ord |-> AgedIns - 1]]

\* The containers of the model: each facade in each sort mode, freshly
\* constructed or (PlainHeap and Heap) long in use.
InitHeap ==
    /\ facade \in {"PlainHeap", "GroupingHeap", "Heap"}
    /\ sort_on \in {"Push", "Pop"}
    /\ fault = "none"
    /\ ins = 0
    /\ tags = 0
    /\ grouped = FALSE
    /\ rerun = RerunOff
    /\ \/ InitNew
       \/ facade # "GroupingHeap" /\ InitAged

\* push, pop and clear hold no arithmetic that can overflow (len -= 1 runs
\* behind len != 0), so one build stands for both.
InitSingle == InitHeap /\ overflow_checks = TRUE

\* push_group subtracts unguarded: a GroupingHeap is followed in both builds.
Init ==
    /\ InitHeap
    /\ overflow_checks \in (IF facade = "GroupingHeap" THEN BOOLEAN ELSE {TRUE})

\* ---------------------------------------------------------------- actions

\* The group tag push hands to Heap::push, and the group counter after it:
\* PlainHeap passes NoGrouping, GroupingHeap its incremented counter, the
\* generic Heap the caller's g.
PushTag(g) ==
    IF facade = "PlainHeap" THEN NoGrouping
    ELSE IF facade = "GroupingHeap" THEN WrapU16(group_seq + 1)
    ELSE g

\* PlainHeap::push, GroupingHeap::push, Heap::push.
Push(f, m, g) ==
    LET r == HeapPush(f, m, PushTag(g))
        ok == r.ret.kind = "Ok"
    IN /\ fault = "none"
       /\ facade = "Heap" \/ g = 1
       /\ facade = "PlainHeap" \/ m = 1
       /\ ok => ins < MaxIns
       /\ facade = "GroupingHeap" => tags < MaxTags
       /\ data' = r.data
       /\ len' = r.len
       /\ hint_idx' = r.hint_idx
       /\ seq' = r.seq
       /\ group_seq' = IF facade = "GroupingHeap" THEN PushTag(g) ELSE group_seq
       /\ tags' = IF facade = "GroupingHeap" THEN tags + 1 ELSE tags
       /\ fault' = r.fault
       /\ nins' = IF ok THEN nins + 1 ELSE nins
       /\ ins' = IF ok THEN ins + 1 ELSE ins
       /\ last' = [op |-> "push", ret |-> r.ret]
       /\ UNCHANGED <<facade, sort_on, overflow_checks, grouped>>

\* PlainHeap::pop, GroupingHeap::pop, Heap::pop.
Pop ==
    LET r == HeapPop
    IN /\ fault = "none"
       /\ data' = r.data
       /\ len' = r.len
       /\ hint_idx' = r.hint_idx
       /\ fault' = r.fault
       /\ last' = [op |-> "pop", ret |-> r.ret]
       /\ UNCHANGED <<facade, sort_on, overflow_checks, seq, group_seq, nins,
                      ins, tags, grouped>>

\* PlainHeap::clear, GroupingHeap::clear, Heap::clear.
Clear ==
    LET r == HeapClear
    IN /\ fault = "none"
       /\ data' = r.data
       /\ len' = r.len
       /\ last' = [op |-> "clear", ret |-> r.ret]
       /\ UNCHANGED <<facade, sort_on, overflow_checks, hint_idx, seq,
                      group_seq, fault, nins, ins, tags, grouped>>

\* The frames of the iterators handed to push_group.
GroupFrames == {Frame(StandardId(5), <<1>>), Frame(ExtendedId(7), <<3>>)}

\* The iterators handed to push_group: up to MaxGroup frames, all with the
\* marker m.
RECURSIVE SeqsUpTo(_, _)
SeqsUpTo(S, k) ==
    IF k = 0 THEN {<<>>}
    ELSE LET shorter == SeqsUpTo(S, k - 1)
         IN shorter \cup {Append(q, x) : q \in shorter, x \in S}

GroupInputs(m) ==
    {[t \in 1..Len(q) |-> [frame |-> q[t], marker |-> m]] :
        q \in SeqsUpTo(GroupFrames, MaxGroup)}

\* GroupingHeap::push_group.
PushGroupCall(frames) ==
    LET r == PushGroup(frames)
    IN /\ fault = "none"
       /\ facade = "GroupingHeap"
       /\ ins + r.given <= MaxIns
       /\ r.group_seq # group_seq => tags < MaxTags
       /\ data' = r.data
       /\ len' = r.len
       /\ hint_idx' = r.hint_idx
       /\ seq' = r.seq
       /\ group_seq' = r.group_seq
       /\ tags' = IF r.group_seq # group_seq THEN tags + 1 ELSE tags
       /\ fault' = r.fault
       /\ nins' = nins + r.given
       /\ ins' = ins + r.given
       /\ grouped' = (grouped \/ Len(frames) > 0)
       /\ last' = [op |-> "push_group", ret |-> r.ret]
       /\ UNCHANGED <<facade, sort_on, overflow_checks>>

\* A container used through push, pop and clear alone.
NextSingle ==
    \/ (\E f \in Frames, m \in Markers, g \in Groups : Push(f, m, g))
          /\ UNCHANGED rerun
    \/ Pop /\ UNCHANGED rerun
    \/ Clear /\ UNCHANGED rerun

SpecSingle == InitSingle /\ [][NextSingle]_vars

\* Successful insertions, each with a group tag of its own, behind the
\* long-used GroupingHeap: 2^16.
TagAgedIns == 2^16

\* The state of a GroupingHeap long in use: new(sort_on), push(AgedFrame, 1),
\* then TagAgedIns - 1 times push(ChurnFrame, 1) followed by pop(). Every one
\* of those pops returns the ChurnFrame just pushed and leaves AgedFrame, with
\* seq 0 and group tag 1, in slot 1, the cursor behind the popped slot 0;
\* seq and group_seq have both come back to 0.
InitTagsAged ==
    /\ data = [i \in 1..N |->
                 IF i = 2 THEN Filled(AgedFrame, 0, 1, 1, 0) ELSE Hole]
    /\ len = 1
    /\ hint_idx = 1
    /\ seq = WrapI16(TagAgedIns)
    /\ group_seq = WrapU16(TagAgedIns)
    /\ nins = TagAgedIns
    /\ last = [op |-> "pop",
               ret |-> [kind |-> "Some", frame |-> ChurnFrame, marker |-> 1,
                        ord |-> TagAgedIns - 1]]

InitTags ==
    /\ facade = "GroupingHeap"
    /\ sort_on \in {"Push", "Pop"}
    /\ overflow_checks = TRUE
    /\ fault = "none"
    /\ ins = 0
    /\ tags = 0
    /\ grouped = FALSE
    /\ rerun = RerunOff
    /\ InitTagsAged

\* A long-used GroupingHeap used on through push, pop and clear.
SpecTags == InitTags /\ [][NextSingle]_vars

\* Every public call of the three facades.
Next ==
    \/ (\E f \in Frames, m \in Markers, g \in Groups : Push(f, m, g))
          /\ UNCHANGED rerun
    \/ Pop /\ UNCHANGED rerun
    \/ Clear /\ UNCHANGED rerun
    \/ (\E frames \in GroupInputs(1) : PushGroupCall(frames))
          /\ UNCHANGED rerun

Spec == Init /\ [][Next]_vars

\* ------------------------------------------------- calls after a clear

\* The calls made after a clear: every push, pop, and push_group of one or
\* two frames.
ScriptCalls ==
    {[op |-> "push", f |-> f, m |-> m, g |-> g] :
        f \in Frames, m \in Markers, g \in Groups}
        \cup {[op |-> "pop"]}
        \cup {[op |-> "push_group", frames |-> q] :
                 q \in {x \in GroupInputs(1) : Len(x) \in 1..2}}

\* The call c on the container.
Call(c) ==
    CASE c.op = "push" -> Push(c.f, c.m, c.g)
      [] c.op = "pop" -> Pop
      [] c.op = "push_group" -> PushGroupCall(c.frames)
      [] c.op = "clear" -> Clear

\* What the caller sees of a call: the return value (a popped frame and its
\* marker, without the insertion number the model keeps beside them), len()
\* after it, and whether it panicked.
Seen(ret, l, f) ==
    [ret |-> IF ret.kind = "Some"
             THEN [kind |-> "Some", frame |-> ret.frame, marker |-> ret.marker]
             ELSE ret,
     len |-> l, fault |-> f]

\* clear() on a container in use; the calls that follow are recorded.
ClearThenRecord ==
    /\ rerun.phase = "off"
    /\ Clear
    /\ rerun' = [phase |-> "record", calls |-> <<>>, rets |-> <<>>,
                 ins0 |-> ins, tags0 |-> tags]

\* A call after the clear, recorded with what the caller sees of it.
RecordCall(c) ==
    /\ rerun.phase = "record"
    /\ Len(rerun.calls) < MaxScript
    /\ Call(c)
    /\ rerun' = [rerun EXCEPT
                   !.calls = Append(@, c),
                   !.rets = Append(@, Seen(last'.ret, len', fault'))]

\* A new container of the same facade, mode and build takes the place of the
\* cleared one: <facade>::new(sort_on).
Restart ==
    /\ rerun.phase = "record"
    /\ rerun.calls # <<>>
    /\ data' = EmptyData
    /\ len' = 0
    /\ hint_idx' = 0
    /\ seq' = 0
    /\ group_seq' = 0
    /\ fault' = "none"
    /\ nins' = 0
    /\ ins' = rerun.ins0
    /\ tags' = rerun.tags0
    /\ last' = [op |-> "new", ret |-> [kind |-> "Unit"]]
    /\ rerun' = [phase |-> "replay", calls |-> rerun.calls,
                 rets |-> rerun.rets, got |-> <<>>, ins0 |-> rerun.ins0,
                 tags0 |-> rerun.tags0]
    /\ UNCHANGED <<facade, sort_on, overflow_checks, grouped>>

\* The next recorded call, made on the new container.
ReplayCall ==
    /\ rerun.phase = "replay"
    /\ Len(rerun.got) < Len(rerun.calls)
    /\ Call(rerun.calls[Len(rerun.got) + 1])
    /\ rerun' = [rerun EXCEPT
                   !.got = Append(@, Seen(last'.ret, len', fault'))]

\* A container in use is cleared, used again, and the use after the clear is
\* repeated on a new container.
NextClear ==
    \/ /\ rerun.phase = "off"
       /\ \/ \E f \in Frames, m \in Markers, g \in Groups : Push(f, m, g)
          \/ Pop
          \/ Clear
          \/ \E frames \in GroupInputs(1) : PushGroupCall(frames)
       /\ UNCHANGED rerun
    \/ ClearThenRecord
    \/ \E c \in ScriptCalls : RecordCall(c)
    \/ Restart
    \/ ReplayCall

SpecClear == Init /\ [][NextClear]_vars

\* ------------------------------------------------- one script, two modes

\* The calls made on the two PlainHeaps: push of a high- or a low-priority
\* frame with either marker, pop, and clear; len() is read after every call.
ModeCalls ==
    {[op |-> "push", f |-> f, m |-> m, g |-> 1] :
        f \in GroupFrames, m \in Markers}
        \cup {[op |-> "pop"], [op |-> "clear"]}

\* PlainHeap::new(SortOn::Push), its calls recorded from the first one.
InitModes ==
    /\ facade = "PlainHeap"
    /\ sort_on = "Push"
    /\ overflow_checks = TRUE
    /\ fault = "none"
    /\ ins = 0
    /\ tags = 0
    /\ grouped = FALSE
    /\ InitNew
    /\ rerun = [phase |-> "record", calls |-> <<>>, rets |-> <<>>,
                ins0 |-> 0, tags0 |-> 0]

\* A call on the SortOn::Push container, recorded with what the caller sees
\* of it.
RecordModeCall(c) ==
    /\ rerun.phase = "record"
    /\ Len(rerun.calls) < MaxModeScript
    /\ Call(c)
    /\ rerun' = [rerun EXCEPT
                   !.calls = Append(@, c),
                   !.rets = Append(@, Seen(last'.ret, len', fault'))]

\* PlainHeap::new(SortOn::Pop): a second container of the same capacity, to
\* take the same calls.
NewOtherMode ==
    /\ rerun.phase = "record"
    /\ rerun.calls # <<>>
    /\ sort_on' = "Pop"
    /\ data' = EmptyData
    /\ len' = 0
    /\ hint_idx' = 0
    /\ seq' = 0
    /\ group_seq' = 0
    /\ fault' = "none"
    /\ nins' = 0
    /\ ins' = 0
    /\ tags' = 0
    /\ last' = [op |-> "new", ret |-> [kind |-> "Unit"]]
    /\ rerun' = [phase |-> "replay", calls |-> rerun.calls,
                 rets |-> rerun.rets, got |-> <<>>, ins0 |-> 0, tags0 |-> 0]
    /\ UNCHANGED <<facade, overflow_checks, grouped>>

\* A SortOn::Push PlainHeap takes a run of calls; a SortOn::Pop PlainHeap
\* takes the same run.
NextModes ==
    \/ \E c \in ModeCalls : RecordModeCall(c)
    \/ NewOtherMode
    \/ ReplayCall

SpecModes == InitModes /\ [][NextModes]_vars

\* ------------------------------------------- identifiers and frames alone

\* The u16 values handed to new_standard: each single bit, and each run of
\* low bits up to all sixteen.
StdRaw == {2^k : k \in 0..15} \cup {2^k - 1 : k \in 0..16}

\* The u32 values handed to new_extended: each single bit, and each run of low
\* bits up to all thirty-two.
ExtRaw ==
    {U32(0, 2^k) : k \in 0..15} \cup {U32(2^k, 0) : k \in 0..15}
        \cup {U32(0, 2^k - 1) : k \in 0..16}
        \cup {U32(2^k - 1, 65535) : k \in 1..16}

\* The identifiers compared: the least and the greatest of each kind, and
\* numbers that occur in both kinds.
CmpIds ==
    {NewStandard(v).val : v \in {0, 5, 7, 2^11 - 1}}
        \cup {NewExtended(w).val :
                 w \in {U32(0, 0), U32(0, 5), U32(0, 7), U32(2^13 - 1, 65535)}}

\* The bytes of the payloads.
Bytes == {0, 7, 255}

\* The capacity at which a slice length no longer fits the u16 len.
BigMtu == 2^16

\* The (MTU, slice) pairs handed to Frame::new: every slice of up to
\* MaxMtu + 1 bytes at every capacity up to MaxMtu, and at BigMtu a short
\* slice, a slice that fills the buffer and one that is a byte too long.
NewInputs ==
    {[mtu |-> c, bytes |-> b] :
        c \in 0..MaxMtu, b \in SeqsUpTo(Bytes, MaxMtu + 1)}
        \cup {[mtu |-> BigMtu, bytes |-> b] :
                 b \in {<<7>>, Zeros(BigMtu), Zeros(BigMtu + 1)}}

\* The identifiers of the frames built here.
FrameIds == {NewStandard(5).val, NewExtended(U32(0, 5)).val}

\* The used lengths handed to new_move: up to one past MaxMtu, and the
\* greatest u16.
UsedInputs == 0..(MaxMtu + 1) \cup {65535}

\* The buffers of exactly c bytes.
Buffers(c) == {b \in SeqsUpTo(Bytes, c) : Len(b) = c}

\* The frames compared: built by Frame::new at capacity MaxMtu.
CmpFrames ==
    {FrameNew(MaxMtu, id, b).val :
        id \in FrameIds, b \in SeqsUpTo({0, 7}, MaxMtu)}

\* A call of FrameId::new_standard.
CallNewStandard(v) ==
    /\ last.op = "new"
    /\ last' = [op |-> "new_standard", arg |-> v, ret |-> NewStandard(v)]
    /\ UNCHANGED <<facade, sort_on, overflow_checks, data, len, hint_idx, seq,
                   group_seq, fault, nins, ins, tags, grouped, rerun>>

\* A call of FrameId::new_extended.
CallNewExtended(w) ==
    /\ last.op = "new"
    /\ last' = [op |-> "new_extended", arg |-> w, ret |-> NewExtended(w)]
    /\ UNCHANGED <<facade, sort_on, overflow_checks, data, len, hint_idx, seq,
                   group_seq, fault, nins, ins, tags, grouped, rerun>>

\* The calls of FrameId::cmp and == among three identifiers.
CallIdCmp(a, b, c) ==
    /\ last.op = "new"
    /\ last' = [op |-> "FrameId::cmp", a |-> a, b |-> b, c |-> c,
                ab |-> FrameIdCmp(a, b), ba |-> FrameIdCmp(b, a),
                bc |-> FrameIdCmp(b, c), ac |-> FrameIdCmp(a, c),
                eq |-> FrameIdEq(a, b)]
    /\ UNCHANGED <<facade, sort_on, overflow_checks, data, len, hint_idx, seq,
                   group_seq, fault, nins, ins, tags, grouped, rerun>>

\* Frame::<mtu>::new(id, bytes), then data() on the frame if one was made.
CallFrameNew(mtu, id, bytes) ==
    LET r == FrameNew(mtu, id, bytes)
    IN /\ last.op = "new"
       /\ last' = [op |-> "Frame::new", mtu |-> mtu, id |-> id,
                   bytes |-> bytes, ret |-> r,
                   data |-> IF r = None THEN None ELSE FrameData(r.val)]
       /\ UNCHANGED <<facade, sort_on, overflow_checks, data, len, hint_idx,
                      seq, group_seq, fault, nins, ins, tags, grouped, rerun>>

\* Frame::<mtu>::new_move(id, buf, used), then data() on the frame.
CallFrameNewMove(mtu, id, buf, used) ==
    LET r == FrameNewMove(mtu, id, buf, used)
    IN /\ last.op = "new"
       /\ last' = [op |-> "Frame::new_move", mtu |-> mtu, id |-> id,
                   buf |-> buf, used |-> used, ret |-> r,
                   data |-> IF r = None THEN None ELSE FrameData(r.val)]
       /\ UNCHANGED <<facade, sort_on, overflow_checks, data, len, hint_idx,
                      seq, group_seq, fault, nins, ins, tags, grouped, rerun>>

\* a == b and a.cmp(&b) on two frames.
CallFrameCmp(a, b) ==
    /\ last.op = "new"
    /\ last' = [op |-> "Frame::cmp", a |-> a, b |-> b,
                cmp |-> FrameCmp(a, b), eq |-> FrameEq(a, b)]
    /\ UNCHANGED <<facade, sort_on, overflow_checks, data, len, hint_idx, seq,
                   group_seq, fault, nins, ins, tags, grouped, rerun>>

\* The numbers of successful insertions behind the slots compared: the
\* first two, the two on each side of the wrap of seq from 32767 to -32768,
\* and the two on each side of its return to 0.
SlotOrds == {0, 1, 2^15 - 2, 2^15 - 1, 2^15, 2^15 + 1, 2^16 - 1, 2^16}

\* The slots compared: a Hole, and the slot push fills at each of those
\* insertions, `HeapElement::Filled(frame, self.seq, marker, group)` with
\* seq advanced by wrapping_add(1) once per successful insertion.
CmpSlots ==
    {Hole} \cup
    {Filled(f, WrapI16(o), 1, NoGrouping, o) :
        f \in {ChurnFrame, AgedFrame}, o \in SlotOrds}

\* The calls of HeapElement::cmp among three slots.
CallElemCmp(a, b, c) ==
    /\ last.op = "new"
    /\ last' = [op |-> "HeapElement::cmp", a |-> a, b |-> b, c |-> c,
                ab |-> ElemCmp(a, b), ba |-> ElemCmp(b, a),
                bc |-> ElemCmp(b, c), ac |-> ElemCmp(a, c)]
    /\ UNCHANGED <<facade, sort_on, overflow_checks, data, len, hint_idx, seq,
                   group_seq, fault, nins, ins, tags, grouped, rerun>>

\* The identifier and frame functions are called on their own, each call
\* made once from the start, beside an untouched new PlainHeap.
InitValue ==
    /\ facade = "PlainHeap"
    /\ sort_on = "Push"
    /\ overflow_checks = TRUE
    /\ fault = "none"
    /\ ins = 0
    /\ tags = 0
    /\ grouped = FALSE
    /\ rerun = RerunOff
    /\ InitNew

NextValue ==
    \/ \E v \in StdRaw : CallNewStandard(v)
    \/ \E w \in ExtRaw : CallNewExtended(w)
    \/ \E a \in CmpIds, b \in CmpIds, c \in CmpIds : CallIdCmp(a, b, c)
    \/ \E x \in NewInputs, id \in FrameIds : CallFrameNew(x.mtu, id, x.bytes)
    \/ \E c \in 0..MaxMtu, id \in FrameIds, used \in UsedInputs :
          \E buf \in Buffers(c) : CallFrameNewMove(c, id, buf, used)
    \/ \E a \in CmpFrames, b \in CmpFrames : CallFrameCmp(a, b)
    \/ \E a \in CmpSlots, b \in CmpSlots, c \in CmpSlots : CallElemCmp(a, b, c)

SpecValue == InitValue /\ [][NextValue]_vars

\* ------------------------------------------------------ terms of the claims

\* The entries stored in d.
Stored(d) == {d[i] : i \in FilledAt(d)}

\* The number of Filled slots of d.
Count(d) == Cardinality(FilledAt(d))

IdLt(a, b) == FrameIdCmp(a, b) = "Less"

IdLe(a, b) == FrameIdCmp(a, b) # "Greater"

\* The last call was a pop that returned an entry.
PopReturned == fault = "none" /\ last.op = "pop" /\ last.ret.kind = "Some"

\* The identifier of the lowest-priority occupant of a non-empty d.
WorstId(d) ==
    (CHOOSE e \in Stored(d) : \A x \in Stored(d) : IdLe(x.frame.id, e.frame.id))
        .frame.id

\* The occupant of a non-empty d that sorts last by (identifier, insertion
\* order).
LastInOrder(d) ==
    CHOOSE e \in Stored(d) :
        \A x \in Stored(d) :
            \/ IdLt(x.frame.id, e.frame.id)
            \/ x.frame.id = e.frame.id /\ x.ord <= e.ord

\* Half the range of the 16-bit sequence counter.
HalfRange == 2^15

\* The insertion numbers in S lie fewer than 2^15 apart.
WithinWindow(S) == \A a, b \in S : a - b < HalfRange

\* ------------------------------------------------------------------- C1

\* C1: under push, pop and clear, in both sort modes, the entry a pop returns
\* has an identifier less than or equal to that of every entry still stored.
C1_PopReturnsBest ==
    PopReturned =>
        \A e \in Stored(data) : IdLe(last.ret.frame.id, e.frame.id)

\* A pop in SortOn::Pop mode returned an entry inserted after an entry of
\* lower priority that is still stored.
C1_Witness ==
    /\ PopReturned
    /\ sort_on = "Pop"
    /\ ins > 0
    /\ \E e \in Stored(data) :
          IdLt(last.ret.frame.id, e.frame.id) /\ e.ord < last.ret.ord

\* ------------------------------------------------------------------- C2

\* C2 as stated: of two stored messages with the same identifier, pop returns
\* the one inserted first, for every sequence of pushes and pops.
C2_FifoUnderTie ==
    PopReturned =>
        \A e \in Stored(data) :
            e.frame.id = last.ret.frame.id => last.ret.ord < e.ord

\* The insertion numbers of the entry the pop returned and of the stored
\* entries with its identifier.
TieOrds ==
    {last.ret.ord} \cup
    {e.ord : e \in {x \in Stored(data) : x.frame.id = last.ret.frame.id}}

\* C2, amended: of the stored messages with the same identifier, pop returns
\* the one inserted first, provided the messages with that identifier stored
\* when pop is called were inserted fewer than 2^15 successful insertions
\* apart.
C2_FifoWithinWindow ==
    (PopReturned /\ WithinWindow(TieOrds)) =>
        \A e \in Stored(data) :
            e.frame.id = last.ret.frame.id => last.ret.ord < e.ord

\* A pop returned the older of two messages with one identifier whose
\* sequence numbers lie on the two sides of the wrap of the 16-bit counter.
C2_Witness ==
    /\ PopReturned
    /\ WithinWindow(TieOrds)
    /\ \E e \in Stored(data) :
          /\ e.frame.id = last.ret.frame.id
          /\ e.seq < 0
          /\ WrapI16(last.ret.ord) > 0

\* ------------------------------------------------------------------- C3

\* The step is a push of frame f with marker m on a PlainHeap that holds N
\* entries, f outranking the lowest-priority occupant.
PressurePush(f, m) ==
    /\ Push(f, m, 1)
    /\ facade = "PlainHeap"
    /\ Count(data) = N
    /\ IdLt(f.id, WorstId(data))

\* What C3 promises of such a push: Ok(1), len still N, the occupant last in
\* (identifier, insertion order) gone, the others kept beside the new entry.
PressureResult(f, m) ==
    /\ last'.ret = [kind |-> "Ok", n |-> 1]
    /\ len' = N
    /\ Stored(data') =
          (Stored(data) \ {LastInOrder(data)})
              \cup {Filled(f, seq, m, NoGrouping, nins)}

\* C3 as stated: a push into a full PlainHeap of a message that outranks the
\* lowest-priority occupant returns Ok(1), keeps len at N and removes exactly
\* the occupant that sorts last by (identifier, insertion order).
C3_CapacityPressure ==
    [][\A f \in Frames, m \in Markers :
          PressurePush(f, m) => PressureResult(f, m)]_vars

\* The insertion numbers of the occupants that carry the lowest-priority
\* identifier of d.
WorstOrds(d) == {e.ord : e \in {x \in Stored(d) : x.frame.id = WorstId(d)}}

\* What such a push does whatever the age of the occupants: Ok(1), len
\* still N, one occupant that carries the lowest-priority identifier gone,
\* the others kept beside the new entry.
PressureRemovesOne(f, m) ==
    /\ last'.ret = [kind |-> "Ok", n |-> 1]
    /\ len' = N
    /\ \E e \in Stored(data) :
          /\ e.frame.id = WorstId(data)
          /\ Stored(data') =
                (Stored(data) \ {e})
                    \cup {Filled(f, seq, m, NoGrouping, nins)}

\* C3, amended: a push into a full PlainHeap of a message that outranks the
\* lowest-priority occupant returns Ok(1), keeps len at N and removes exactly
\* one occupant, one that carries the lowest-priority identifier, keeping the
\* other N - 1 beside the new entry; the occupant removed is the one that
\* sorts last by (identifier, insertion order) provided the occupants that
\* carry the lowest-priority identifier were inserted fewer than 2^15
\* successful insertions apart.
C3_CapacityPressureWithinWindow ==
    [][\A f \in Frames, m \in Markers :
          PressurePush(f, m) =>
              /\ PressureRemovesOne(f, m)
              /\ WithinWindow(WorstOrds(data)) => PressureResult(f, m)]_vars

\* A full PlainHeap whose two worst occupants share an identifier has just
\* lost the later of them to a push that returned Ok(1).
C3_Witness ==
    /\ facade = "PlainHeap"
    /\ fault = "none"
    /\ last = [op |-> "push", ret |-> [kind |-> "Ok", n |-> 1]]
    /\ len = N
    /\ Count(data) = N
    /\ \E e \in Stored(data) : e.ord = nins - 1 /\ \E x \in Stored(data) :
          x.frame.id = WorstId(data) /\ x.ord < nins - 2

\* ------------------------------------------------------------------- C4

\* C4: a push into a container that holds N entries, of a message that does
\* not outrank the lowest-priority occupant, returns Err with that message and
\* leaves len, the stored entries and the sequence counter as they were.
C4_RejectionIsNoOp ==
    [][\A f \in Frames, m \in Markers, g \in Groups :
          (Push(f, m, g) /\ Count(data) = N /\ ~IdLt(f.id, WorstId(data)))
              => /\ last'.ret = [kind |-> "Err", frame |-> f]
                 /\ len' = len
                 /\ Stored(data') = Stored(data)
                 /\ seq' = seq]_vars

\* ------------------------------------------------------------------- C5

\* C5: after any sequence of calls on any facade, len equals the number of
\* Filled slots and does not exceed N.
C5_LenCountsFilled ==
    fault = "none" => (len = Count(data) /\ len <= N)

\* ------------------------------------------------------------------- C6

\* The insertion numbers of the entries stored in d.
StoredOrds(d) == {e.ord : e \in Stored(d)}

\* The step is a pop that returns the entry e of the state before it.
PopTakes(e) ==
    /\ Pop
    /\ last'.ret = [kind |-> "Some", frame |-> e.frame, marker |-> e.marker,
                    ord |-> e.ord]
    /\ e \notin Stored(data')

\* C6: under push, pop and clear, (1) an accepted push stores the message with
\* the marker as supplied, (2) a pop returns the message and marker of an entry
\* that was stored and no longer is, and no two stored entries are the same
\* insertion, (3) an entry leaves the container only by the pop that returns
\* it, by a push into a full container, or by clear.
C6_EntriesAreKept ==
    [][/\ \A f \in Frames, m \in Markers, g \in Groups :
             (Push(f, m, g) /\ last'.ret.kind = "Ok")
                 => \E e \in Stored(data') :
                       e.ord = nins /\ e.frame = f /\ e.marker = m
       /\ (Pop /\ last'.ret.kind = "Some")
             => \E e \in Stored(data) : PopTakes(e)
       /\ Cardinality(StoredOrds(data')) = Count(data')
       /\ \A e \in Stored(data) :
             e.ord \notin StoredOrds(data')
                 => \/ PopTakes(e)
                    \/ Clear
                    \/ /\ Count(data) = N
                       /\ \E f \in Frames, m \in Markers, g \in Groups :
                             Push(f, m, g)]_vars

\* ------------------------------------------------------------------- C7

\* The step is a push_group of the k >= 1 pairs of frames into a container
\* with at least k free slots.
GroupFits(frames) ==
    /\ PushGroupCall(frames)
    /\ Len(frames) >= 1
    /\ N - Count(data) >= Len(frames)

\* C7: such a push_group returns Ok(0), stores all k messages under one group
\* tag with sequence numbers ascending in input order, grows len by k and
\* keeps every entry stored before.
C7_GroupIsStored ==
    [][\A frames \in GroupInputs(1) :
          GroupFits(frames)
              => /\ last'.ret = [kind |-> "Ok", n |-> 0]
                 /\ \A t \in 1..Len(frames) :
                       Filled(frames[t].frame, WrapI16(seq + t - 1),
                              frames[t].marker, group_seq', nins + t - 1)
                           \in Stored(data')
                 /\ len' = len + Len(frames)
                 /\ Stored(data) \subseteq Stored(data')]_vars

\* ------------------------------------------------------------------- C8

\* The step is a push_group that returns Err: every call records its name and
\* return value in last, and the heap is not touched between calls.
GroupRefused ==
    /\ fault = "none"
    /\ last'.op = "push_group"
    /\ last'.ret.kind = "Err"

\* C8: a push_group that returns Err leaves len, the stored entries, the
\* sequence counter and the group counter as they were.
C8_FailedGroupIsAtomic ==
    [][GroupRefused
          => /\ len' = len
             /\ Stored(data') = Stored(data)
             /\ seq' = seq
             /\ group_seq' = group_seq
             /\ nins' = nins]_vars

\* A push_group was refused by a container that holds entries of two groups.
C8_Witness ==
    /\ fault = "none"
    /\ last = [op |-> "push_group", ret |-> [kind |-> "Err"]]
    /\ \E a, b \in Stored(data) : a.group # b.group

\* ------------------------------------------------------------------- C9

\* The entries of d that carry the group tag g.
Members(d, g) == {e \in Stored(d) : e.group = g}

\* C9: after a push_group that returns Ok, of every group that had members
\* stored before the call either all those members are still stored or none.
C9_GroupEvictionIsWhole ==
    [][\A frames \in GroupInputs(1) :
          (PushGroupCall(frames) /\ Len(frames) >= 1 /\ last'.ret.kind = "Ok")
              => \A x \in Stored(data) :
                    \/ Members(data, x.group) \subseteq Stored(data')
                    \/ Members(data, x.group) \cap Stored(data') = {}]_vars

\* ------------------------------------------------------------------ C10

\* C10: no sequence of public calls on a PlainHeap or a GroupingHeap reaches
\* unreachable!(), an out-of-range slot index or an integer underflow.
C10_NoPanic == facade \in {"PlainHeap", "GroupingHeap"} => fault = "none"

\* ------------------------------------------------------------------ C11

\* C11: FrameId::cmp is a total order: the two directions mirror each other,
\* Equal is returned for equal identifiers alone, it is transitive; within a
\* kind the number decides, and a Standard identifier is Less than every
\* Extended one.
C11_IdOrderIsTotal ==
    last.op = "FrameId::cmp" =>
        /\ (last.ab = "Less") = (last.ba = "Greater")
        /\ (last.ab = "Greater") = (last.ba = "Less")
        /\ (last.ab = "Equal") = (last.a = last.b)
        /\ (last.ab = "Equal") = last.eq
        /\ (last.ab # "Greater" /\ last.bc # "Greater") => last.ac # "Greater"
        /\ (last.ab = "Less" /\ last.bc = "Less") => last.ac = "Less"
        /\ last.a.std = last.b.std =>
              /\ (last.ab = "Less") = (last.a.v < last.b.v)
              /\ (last.ab = "Greater") = (last.a.v > last.b.v)
        /\ (last.a.std /\ ~last.b.std) => last.ab = "Less"

\* A Standard identifier was found Less than an Extended one of a smaller
\* number, which in turn is Less than a third identifier.
C11_Witness ==
    /\ last.op = "FrameId::cmp"
    /\ last.a.std /\ ~last.b.std /\ last.a.v > last.b.v
    /\ last.ab = "Less" /\ last.bc = "Less" /\ last.ac = "Less"

\* ------------------------------------------------------------------ C12

\* The number a u32 written in halves stands for, where it is below 2^31.
U32Value(w) == w.hi * 2^16 + w.lo

\* C12: new_standard(v) returns an identifier exactly when v < 2^11,
\* new_extended(v) exactly when v < 2^29 (its upper half below 2^13), and the
\* identifier holds v.
C12_IdRangeCheck ==
    /\ last.op = "new_standard" =>
          IF last.arg < 2^11
          THEN last.ret = Some([std |-> TRUE, v |-> last.arg])
          ELSE last.ret = None
    /\ last.op = "new_extended" =>
          IF last.arg.hi < 2^13
          THEN last.ret = Some([std |-> FALSE, v |-> U32Value(last.arg)])
          ELSE last.ret = None

\* new_standard refused 2^11, the lowest value with a bit above bit 10.
C12_Witness ==
    last = [op |-> "new_standard", arg |-> 2^11, ret |-> None]

\* ------------------------------------------------------------------ C13

\* C13: Frame::new(id, bytes) at capacity C returns a frame whose data() is
\* bytes when bytes is at most C long, and None when it is longer.
C13_RoundTrip ==
    last.op = "Frame::new" =>
        IF Len(last.bytes) <= last.mtu
        THEN /\ last.ret # None
             /\ last.data = [kind |-> "Slice", bytes |-> last.bytes]
        ELSE last.ret = None

\* ------------------------------------------------------------------ C14

\* C14: a frame made by Frame::new or Frame::new_move has len <= C, and its
\* data() returns len bytes.
C14_UsedLengthInBuffer ==
    (last.op \in {"Frame::new", "Frame::new_move"} /\ last.ret # None) =>
        /\ last.ret.val.len <= last.mtu
        /\ last.data.kind = "Slice"
        /\ Len(last.data.bytes) = last.ret.val.len

\* ------------------------------------------------------------------ C15

\* C15: a == b exactly when a.id == b.id, and a.cmp(&b) is Equal exactly
\* when a == b.
C15_FrameEqualityById ==
    last.op = "Frame::cmp" =>
        /\ last.eq = FrameIdEq(last.a.id, last.b.id)
        /\ (last.cmp = "Equal") = last.eq

\* ------------------------------------------------------------------ C17

\* C17: a pop on a container that holds no entries returns None without
\* fault and leaves len at 0 and every slot a Hole.
C17_PopOnEmpty ==
    [][(Pop /\ Count(data) = 0)
          => /\ last'.ret = [kind |-> "None"]
             /\ fault' = "none"
             /\ len' = 0
             /\ Count(data') = 0]_vars

\* ------------------------------------------------------------------ C18

\* The occupant a push into a full container compares with: the last slot of
\* the sorted array.
TailOccupant(d) == SortUnstable(d)[N]

\* The number of entries of d that are no longer stored in e.
Evicted(d, e) == Cardinality(StoredOrds(d) \ StoredOrds(e))

\* C18: when a push into a container of N entries returns Ok, no earlier
\* entry with the evicted occupant's group tag is left, len equals the number
\* of Filled slots, and the Ok value is the number of earlier entries that are
\* gone.
C18_CascadingEviction ==
    [][\A f \in Frames, m \in Markers, g \in Groups :
          (Push(f, m, g) /\ len = N /\ Count(data) = N
                /\ last'.ret.kind = "Ok")
              => /\ \A e \in Stored(data') :
                       e.ord \in StoredOrds(data)
                           => ~GroupEq(TailOccupant(data).group, e.group)
                 /\ len' = Count(data')
                 /\ last'.ret.n = Evicted(data, data')]_vars

\* ------------------------------------------------------------------ C19

\* The step is a push_group of k >= 1 pairs into a container with fewer than
\* k free slots, the first frame not outranking the occupant at the start of
\* the last k slots of the sorted array.
GroupMustBeRefused(frames) ==
    /\ PushGroupCall(frames)
    /\ Len(frames) >= 1
    /\ Len(frames) <= N
    /\ len = Count(data)
    /\ N - Count(data) < Len(frames)
    /\ ~IdLt(frames[1].frame.id,
             SortUnstable(data)[N - Len(frames) + 1].frame.id)

\* C19: such a push_group returns Err.
C19_GroupAdmission ==
    [][\A frames \in GroupInputs(1) :
          GroupMustBeRefused(frames) => last'.ret.kind = "Err"]_vars

\* ------------------------------------------------------------------ C20

\* The step is a push_group that returns Ok.
GroupAccepted ==
    /\ fault = "none"
    /\ last'.op = "push_group"
    /\ last'.ret.kind = "Ok"

\* C20: the Ok value of push_group is the number of entries stored before the
\* call that are no longer stored after it.
C20_GroupOkCountsEvicted ==
    [][GroupAccepted => last'.ret.n = Evicted(data, data')]_vars

\* ------------------------------------------------------------------ C16

\* C16: clear leaves len 0 and every slot a Hole; a pop that follows at once
\* returns None; and the calls made after a clear show the caller what the
\* same calls show on a new container of the same mode.
C16_ClearIsLikeNew ==
    /\ last.op = "clear" => (len = 0 /\ data = EmptyData /\ fault = "none")
    /\ (rerun.phase = "record" /\ rerun.calls # <<>>
          /\ rerun.calls[1].op = "pop")
           => rerun.rets[1] = [ret |-> [kind |-> "None"], len |-> 0,
                               fault |-> "none"]
    /\ rerun.phase = "replay" =>
          \A i \in 1..Len(rerun.got) : rerun.got[i] = rerun.rets[i]

\* A container that had popped (its cursor moved) and was cleared took
\* MaxScript calls, the last a pop that returned an entry; the same calls on
\* a new container have all been made.
C16_Witness ==
    /\ rerun.phase = "replay"
    /\ Len(rerun.got) = MaxScript
    /\ rerun.rets[MaxScript].ret.kind = "Some"
    /\ sort_on = "Push"
    /\ rerun.ins0 > 0

\* ------------------------------------------------------------------ C21

\* The Filled slots among the three compared.
ComparedFilled == {x \in {last.a, last.b, last.c} : x.filled}

\* C21: of two Filled slots with equal identifiers filled fewer than 2^15
\* successful insertions apart, HeapElement::cmp puts the one filled first
\* before the other, across the wrap of seq as well; among slots filled
\* fewer than 2^15 insertions apart the comparison is antisymmetric and
\* transitive; a Hole is Greater than every Filled slot.
C21_WrapTolerantTieBreak ==
    (last.op = "HeapElement::cmp"
        /\ WithinWindow({x.ord : x \in ComparedFilled})) =>
        /\ (last.a.filled /\ last.b.filled
               /\ last.a.frame.id = last.b.frame.id
               /\ last.a.ord < last.b.ord)
              => (last.ab = "Less" /\ last.ba = "Greater")
        /\ (last.ab = "Less") = (last.ba = "Greater")
        /\ (last.ab = "Greater") = (last.ba = "Less")
        /\ (last.ab = "Equal") = (last.a = last.b)
        /\ (last.ab # "Greater" /\ last.bc # "Greater") => last.ac # "Greater"
        /\ (last.ab = "Less" /\ last.bc = "Less") => last.ac = "Less"
        /\ (~last.a.filled /\ last.b.filled)
              => (last.ab = "Greater" /\ last.ba = "Less")

\* The slot filled at insertion 2^15 - 1 (seq 32767) was found Less than the
\* slot with its identifier filled at the next insertion (seq -32768), and
\* that one Less than a Hole.
C21_Witness ==
    /\ last.op = "HeapElement::cmp"
    /\ last.a.filled /\ last.b.filled /\ ~last.c.filled
    /\ last.a.frame.id = last.b.frame.id
    /\ last.a.seq = 2^15 - 1 /\ last.b.seq = -(2^15)
    /\ last.ab = "Less" /\ last.bc = "Less" /\ last.ac = "Less"

\* ------------------------------------------------------------------ C22

\* C22: after any sequence of push, push_group, pop and clear calls on a
\* PlainHeap or a GroupingHeap, hint_idx lies in 0..N.
C22_CursorInRange ==
    (facade \in {"PlainHeap", "GroupingHeap"} /\ fault = "none")
        => hint_idx \in 0..N

\* ------------------------------------------------------------------ C23

\* The array and the cursor pop reads after its sort (SortOn::Pop) or
\* without one (SortOn::Push).
PopArray == IF sort_on = "Pop" THEN SortUnstable(data) ELSE data

PopCursor == IF sort_on = "Pop" THEN 0 ELSE hint_idx

\* C23: a pop in SortOn::Push mode that starts with hint_idx >= N returns
\* None; and the entry a pop returns is never taken from a slot before the
\* cursor the pop started from.
C23_PopFailsClosed ==
    [][Pop =>
          /\ (sort_on = "Push" /\ hint_idx >= N) => last'.ret.kind = "None"
          /\ last'.ret.kind = "Some" =>
                \A j \in 1..N :
                    (PopArray[j].filled /\ ~data'[j].filled)
                        => j - 1 >= PopCursor]_vars

\* A pop in SortOn::Push mode on a GroupingHeap with len > 0 returned None
\* and left hint_idx at N: it scanned every slot from cursor 0, and a
\* GroupingHeap in this mode has cursor 0 on an array of Holes with len > 0
\* only after the reset of a cursor that was at or past N.
C23_Witness ==
    /\ facade = "GroupingHeap"
    /\ sort_on = "Push"
    /\ fault = "none"
    /\ last.op = "pop" /\ last.ret.kind = "None"
    /\ len > 0
    /\ hint_idx = N

\* ------------------------------------------------------------------ C24

\* No two Filled slots of d carry one group tag.
TagsDistinct(d) ==
    \A i, j \in FilledAt(d) : i # j => d[i].group # d[j].group

\* C24: on a GroupingHeap that has taken push calls alone (every stored
\* entry inserted by a call of its own), no two stored entries carry one
\* group tag, and a push removes no stored entry beyond the one it replaces.
C24_GroupTagsFresh ==
    [][(facade = "GroupingHeap" /\ ~grouped' /\ fault' = "none") =>
          /\ TagsDistinct(data')
          /\ last'.op = "push" =>
                Cardinality(StoredOrds(data) \ StoredOrds(data')) <= 1]_vars

\* ------------------------------------------------------------------ C25

\* C25: a SortOn::Pop PlainHeap given the calls a SortOn::Push PlainHeap of
\* the same capacity was given returns, call by call, the same Ok or Err
\* for each push, the same frame and marker or None for each pop, and the
\* same len().
C25_ModeEquivalence ==
    (facade = "PlainHeap" /\ sort_on = "Pop" /\ rerun.phase = "replay") =>
        \A i \in 1..Len(rerun.got) :
            /\ rerun.got[i].ret = rerun.rets[i].ret
            /\ rerun.got[i].len = rerun.rets[i].len
            /\ rerun.got[i].fault = rerun.rets[i].fault

\* Both containers took MaxModeScript calls, among them a push that replaced
\* a stored entry and, after it, a pop that returned an entry.
C25_Witness ==
    /\ sort_on = "Pop"
    /\ rerun.phase = "replay"
    /\ Len(rerun.got) = MaxModeScript
    /\ \E i \in 1..MaxModeScript :
          /\ rerun.rets[i].ret = [kind |-> "Ok", n |-> 1]
          /\ \E j \in (i + 1)..MaxModeScript :
                rerun.got[j].ret.kind = "Some"

====
